---- MODULE Spec2Model ----
(***************************************************************************)
(* Rank-based prioritized replay buffer                                    *)
(* (stable_baselines/deepq/rank_based_per.py, RankPrioritizedReplayBuffer) *)
(*                                                                         *)
(* The buffer is a single-threaded object; every public method is one      *)
(* atomic action.  Real-valued quantities are kept exact: alpha is a       *)
(* natural number, so rank^-alpha is a rational with a common numerator    *)
(* scale, and pdf / cdf / importance weights are numerator-denominator     *)
(* pairs compared by cross-multiplication.                                 *)
(*                                                                         *)
(* The buffer imports BinaryHeap from binary_heap.py, which is not among   *)
(* the source files; the priority queue below follows section 4.2 of the   *)
(* specification (PriorityQueue).                                          *)
(***************************************************************************)
EXTENDS Integers, Sequences, FiniteSets, TLC

\* ---------------------------------------------------------------- bounds
MaxSize == 3          \* largest capacity (size) explored
MaxAdds == 5          \* add is called at most MaxAdds times; the k-th call stores experience k

SeedPriority == 1     \* max_priority() of an empty queue

\* alpha: uniform (0) and skewed (1); beta: no correction (0) and full correction (1)
AlphaSet == {0, 1}

BetaSet == {0, 1}

\* deltas passed to update_priorities: both signs, two magnitudes
Deltas == {-2, 1}

VARIABLES
    size, alpha, batch_size, learning_starts, replace_flag,   \* configuration
    distributions,                                            \* self.distributions
    index, record_size, isFull,                               \* counters
    storage,                                                  \* self._storage
    priority_queue,                                           \* self.priority_queue
    adds,         \* number of add calls so far
    written,      \* history: slot -> experience of the last successful add
    ret,          \* the last call and what it returned
    hist,         \* history of the calls, kept by SpecUpdate and SpecStale
    learner       \* the TD3 / EUM object that owns the buffer in SpecLearn

vars == <<size, alpha, batch_size, learning_starts, replace_flag, distributions,
          index, record_size, isFull, storage, priority_queue, adds, written, ret, hist,
          learner>>

config == <<size, alpha, batch_size, learning_starts, replace_flag, distributions>>

\* ---------------------------------------------------------------- arithmetic
\* math.fabs left out
Abs_identity(x) == x

Abs(x) == IF x < 0 THEN -x ELSE x

Min2(a, b) == IF a < b THEN a ELSE b

Max2(a, b) == IF a > b THEN a ELSE b

RECURSIVE Pow(_, _)
Pow(b, e) == IF e = 0 THEN 1 ELSE b * Pow(b, e - 1)

RECURSIVE Gcd(_, _)
Gcd(a, b) == IF b = 0 THEN a ELSE Gcd(b, a % b)

RECURSIVE LcmUpTo(_)
LcmUpTo(n) == IF n <= 1 THEN 1 ELSE LET l == LcmUpTo(n - 1) IN (l * n) \div Gcd(l, n)

RECURSIVE SeqSum(_, _)
\* sum of the first k elements of s (np.cumsum(...)[k-1])
SeqSum(s, k) == IF k = 0 THEN 0 ELSE s[k] + SeqSum(s, k - 1)

\* ---------------------------------------------------------------- priority queue
\* An entry is <<priority, e_id>>; the queue is the heap array, position = rank.
get_max_priority(pq) == IF Len(pq) > 0 THEN pq[1][1] ELSE SeedPriority

Swap(pq, i, j) == [pq EXCEPT ![i] = pq[j], ![j] = pq[i]]

RECURSIVE up_heap(_, _)
up_heap(pq, i) ==
    IF i > 1 /\ pq[i \div 2][1] < pq[i][1]
    THEN up_heap(Swap(pq, i, i \div 2), i \div 2)
    ELSE pq

RECURSIVE down_heap(_, _)
down_heap(pq, i) ==
    LET l == 2 * i
        r == 2 * i + 1
        g1 == IF l <= Len(pq) /\ pq[l][1] > pq[i][1] THEN l ELSE i
        g == IF r <= Len(pq) /\ pq[r][1] > pq[g1][1] THEN r ELSE g1
    IN  IF g # i THEN down_heap(Swap(pq, i, g), g) ELSE pq

HasEntry(pq, e_id) == \E p \in 1..Len(pq) : pq[p][2] = e_id

PositionOf(pq, e_id) == CHOOSE p \in 1..Len(pq) : pq[p][2] = e_id

PriorityOf(pq, e_id) == pq[PositionOf(pq, e_id)][1]

\* set the priority of an existing entry and restore heap order
Reprioritize(pq, priority, e_id) ==
    LET p == PositionOf(pq, e_id)
        q == [pq EXCEPT ![p] = <<priority, e_id>>]
    IN  up_heap(down_heap(q, p), p)

\* entry creation of insert_max: the entry of an overwritten slot is replaced
insert(pq, priority, e_id) ==
    IF HasEntry(pq, e_id)
    THEN Reprioritize(pq, priority, e_id)
    ELSE up_heap(Append(pq, <<priority, e_id>>), Len(pq) + 1)

\* update(slot, new_priority): defined only for a slot that has an entry
update(pq, priority, e_id) == Reprioritize(pq, priority, e_id)

RECURSIVE InsertSorted(_, _)
\* stable insertion of entry x behind the entries of priority >= x's
InsertSorted(s, x) ==
    IF s = <<>> THEN <<x>>
    ELSE IF s[1][1] >= x[1] THEN <<s[1]>> \o InsertSorted(Tail(s), x)
    ELSE <<x>> \o s

RECURSIVE SortDesc(_, _)
SortDesc(pq, k) == IF k = 0 THEN <<>> ELSE InsertSorted(SortDesc(pq, k - 1), pq[k])

\* the sorted array with the slot ids renumbered by rank
balance_tree_renumber(pq) ==
    [p \in 1..Len(pq) |-> <<SortDesc(pq, Len(pq))[p][1], p>>]

balance_tree(pq) == SortDesc(pq, Len(pq))

\* priority_to_experience: defined only when every rank has an entry
RanksKnown(pq, ranks) == \A i \in 1..Len(ranks) : ranks[i] \in 1..Len(pq)

priority_to_experience(pq, ranks) == [i \in 1..Len(ranks) |-> pq[ranks[i]][2]]

\* ---------------------------------------------------------------- distributions
\* rank^-alpha for ranks 1..n, scaled by lcm(1..n)^alpha so that it is integral
PdfNum(n, a) == [x \in 1..n |-> Pow(LcmUpTo(n) \div x, a)]

RECURSIVE WalkCdf(_, _, _, _, _)
\* while cdf[index] < step: index += 1, with step = (s-1)/batch_size and
\* cdf[index] the mass of ranks 1..index+1; -1 when index runs off the cdf
WalkCdf(num, den, B, s, idx) ==
    IF idx + 1 > Len(num) THEN -1
    ELSE IF B * SeqSum(num, idx + 1) < (s - 1) * den
         THEN WalkCdf(num, den, B, s, idx + 1)
         ELSE idx

RECURSIVE StrataEnds(_, _, _, _)
\* strata_ends[1..s] as a sequence; <<-1>> when the walk raised IndexError
StrataEnds(num, den, B, s) ==
    IF s = 1 THEN <<0>>
    ELSE LET prev == StrataEnds(num, den, B, s - 1)
         IN  IF prev = <<-1>> THEN prev
             ELSE LET start == IF s = 2 THEN 1 ELSE prev[s - 1]
                      i == WalkCdf(num, den, B, s, start)
                  IN  IF i = -1 THEN <<-1>> ELSE Append(prev, i)

Distribution(n, a, B) ==
    LET num == PdfNum(n, a)
        den == SeqSum(num, n)
        se == StrataEnds(num, den, B, B)
    IN  [n |-> n, pdf |-> [num |-> num, den |-> den],
         strata_ends |-> IF se = <<-1>> THEN se ELSE Append(se, n)]

PartitionSize(sz, B) == sz \div B

\* the partition numbers for which a distribution is built
BuiltPartitions(sz, B, ls) ==
    {k \in 1..sz : k * PartitionSize(sz, B) <= sz /\ ls <= k * PartitionSize(sz, B)}

build_distributions(sz, a, B, ls) ==
    [k \in BuiltPartitions(sz, B, ls) |-> Distribution(k * PartitionSize(sz, B), a, B)]

\* the constructor returns: range() has a non-zero step and no walk ran off the cdf
ConstructOK(sz, a, B, ls) ==
    /\ PartitionSize(sz, B) >= 1
    /\ \A k \in BuiltPartitions(sz, B, ls) :
          Distribution(k * PartitionSize(sz, B), a, B).strata_ends # <<-1>>

\* ---------------------------------------------------------------- state
NoRet == [op |-> "init", status |-> "ok", slot |-> 0, maxp |-> 0, dist |-> 0,
          ranks |-> <<>>, ids |-> <<>>, batch |-> <<>>, w |-> <<>>]

\* upd: the pairs of the last update_priorities call (kept across rebalance);
\* sampled: the slot ids of the last returned batch not yet handed to
\* update_priorities; stale: those of them an add has overwritten since
NoHist == [upd |-> <<>>, sampled |-> {}, stale |-> {}]

\* the fields of TD3 / EUM the training loop reads and writes
NoLearner ==
    [algo |-> "none", pc |-> "none", num_timesteps |-> 0, step |-> 0,
     train_freq |-> 1, gradient_steps |-> 1, learning_starts |-> 0, grad_step |-> 0,
     replay_buffer |-> "RankPrioritizedReplayBuffer", uniform |-> <<>>, next_idx |-> 0,
     i |-> 0, copied |-> <<>>, window |-> <<>>,
     trained |-> FALSE, asked |-> FALSE, sampled |-> <<>>, updated |-> <<>>]

\* the buffer after __init__, with replace_flag as the owner leaves it
Fresh(flag) ==
    /\ size \in 1..MaxSize
    /\ alpha \in AlphaSet
    /\ batch_size \in 1..MaxSize
    /\ learning_starts \in 0..size
    /\ replace_flag = flag
    /\ ConstructOK(size, alpha, batch_size, learning_starts)
    /\ distributions = build_distributions(size, alpha, batch_size, learning_starts)
    /\ index = 0
    /\ record_size = 0
    /\ isFull = FALSE
    /\ storage = <<>>
    /\ priority_queue = <<>>
    /\ adds = 0
    /\ written = <<>>
    /\ ret = NoRet
    /\ hist = NoHist

\* a buffer that is used on its own, without a learner
Constructed(flag) == Fresh(flag) /\ learner = NoLearner

\* __init__ sets replace_flag to True
Init == Constructed(TRUE)

\* the reject-when-full configuration: the owner clears replace_flag before use
InitReject == Constructed(FALSE)

Running == ret.status # "hang"

can_sample(k) == record_size >= k

\* fix_index with the wrap test made one call early
fix_index_early_wrap ==
    LET rs == IF record_size <= size THEN record_size + 1 ELSE record_size
    IN  IF (index + 1) % size = 0
        THEN [record_size |-> rs, isFull |-> (Cardinality(DOMAIN storage) = size),
              index |-> 1, result |-> 1]
        ELSE [record_size |-> rs, isFull |-> isFull,
              index |-> index + 1, result |-> index + 1]

\* fix_index that stays on the last slot once it has reached it
fix_index_stay_last ==
    LET rs == IF record_size <= size THEN record_size + 1 ELSE record_size
    IN  IF index >= size
        THEN [record_size |-> rs, isFull |-> (Cardinality(DOMAIN storage) = size),
              index |-> size, result |-> size]
        ELSE [record_size |-> rs, isFull |-> isFull,
              index |-> index + 1, result |-> index + 1]

\* fix_index: the counters after the call and the returned insert index
fix_index ==
    LET rs == IF record_size <= size THEN record_size + 1 ELSE record_size
    IN  IF index % size = 0
        THEN IF replace_flag
             THEN [record_size |-> rs, isFull |-> (Cardinality(DOMAIN storage) = size),
                   index |-> 1, result |-> 1]
             ELSE [record_size |-> rs, isFull |-> (Cardinality(DOMAIN storage) = size),
                   index |-> index, result |-> -1]
        ELSE [record_size |-> rs, isFull |-> isFull,
              index |-> index + 1, result |-> index + 1]

Put(st, slot, experience) ==
    [s \in (DOMAIN st) \cup {slot} |-> IF s = slot THEN experience ELSE st[s]]

\* del self._storage[insert_index]; self._storage[insert_index] = experience
store_keep_old(st, slot, experience) ==
    IF slot \in DOMAIN st THEN st ELSE Put(st, slot, experience)

store(st, slot, experience) == Put(st, slot, experience)

\* the body of add, with the priority handed to the queue as a parameter
AddWith(experience, priority) ==
    LET fi == fix_index
        insert_index == fi.result
    IN  /\ Running
        /\ adds < MaxAdds
        /\ adds' = adds + 1
        /\ record_size' = fi.record_size
        /\ index' = fi.index
        /\ isFull' = fi.isFull
        /\ IF insert_index > 0
           THEN /\ storage' = store(storage, insert_index, experience)
                /\ priority_queue' = insert(priority_queue, priority, insert_index)
                /\ written' = Put(written, insert_index, experience)
                /\ ret' = [NoRet EXCEPT !.op = "add", !.slot = insert_index,
                                        !.maxp = get_max_priority(priority_queue)]
           ELSE /\ UNCHANGED <<storage, priority_queue, written>>
                /\ ret' = [NoRet EXCEPT !.op = "add", !.status = "full"]
        /\ UNCHANGED config

add_seed_priority(experience) == AddWith(experience, SeedPriority)

add(experience) == AddWith(experience, get_max_priority(priority_queue))

rebalance_skipped ==
    /\ Running
    /\ ret' = [NoRet EXCEPT !.op = "rebalance"]
    /\ UNCHANGED <<config, index, record_size, isFull, storage, priority_queue, adds, written>>

rebalance ==
    /\ Running
    /\ priority_queue' = balance_tree(priority_queue)
    /\ ret' = [NoRet EXCEPT !.op = "rebalance"]
    /\ UNCHANGED <<config, index, record_size, isFull, storage, adds, written>>

RECURSIVE ApplyUpdates_insert_unknown(_, _, _, _)
\* the loop of update_priorities over a queue that creates entries for unknown slots
ApplyUpdates_insert_unknown(pq, indices, delta, i) ==
    IF i > Len(indices) THEN [pq |-> pq, status |-> "ok"]
    ELSE ApplyUpdates_insert_unknown(insert(pq, Abs(delta[i]), indices[i]),
                                     indices, delta, i + 1)

RECURSIVE ApplyUpdates_skip_unknown(_, _, _, _)
\* the loop of update_priorities going on behind an unknown slot
ApplyUpdates_skip_unknown(pq, indices, delta, i) ==
    IF i > Len(indices) THEN [pq |-> pq, status |-> "ok"]
    ELSE IF ~HasEntry(pq, indices[i])
         THEN [pq |-> ApplyUpdates_skip_unknown(pq, indices, delta, i + 1).pq,
               status |-> "unknown_slot"]
    ELSE ApplyUpdates_skip_unknown(update(pq, Abs(delta[i]), indices[i]),
                                   indices, delta, i + 1)

RECURSIVE ApplyUpdates_loop_index(_, _, _, _)
\* the loop of update_priorities with the loop counter used as the slot id
ApplyUpdates_loop_index(pq, indices, delta, i) ==
    IF i > Len(indices) THEN [pq |-> pq, status |-> "ok"]
    ELSE IF ~HasEntry(pq, i) THEN [pq |-> pq, status |-> "unknown_slot"]
    ELSE ApplyUpdates_loop_index(update(pq, Abs(delta[i]), i), indices, delta, i + 1)

RECURSIVE ApplyUpdates(_, _, _, _)
\* the loop of update_priorities from pair i on; stops at the first unknown slot
ApplyUpdates(pq, indices, delta, i) ==
    IF i > Len(indices) THEN [pq |-> pq, status |-> "ok"]
    ELSE IF ~HasEntry(pq, indices[i]) THEN [pq |-> pq, status |-> "unknown_slot"]
    ELSE ApplyUpdates(update(pq, Abs(delta[i]), indices[i]), indices, delta, i + 1)

update_priorities(indices, delta) ==
    LET r == ApplyUpdates(priority_queue, indices, delta, 1)
    IN  /\ Running
        /\ priority_queue' = r.pq
        /\ ret' = [NoRet EXCEPT !.op = "update_priorities", !.status = r.status]
        /\ UNCHANGED <<config, index, record_size, isFull, storage, adds, written>>

\* ---------------------------------------------------------------- sampling
\* rationals are pairs <<numerator, denominator>> with positive denominator
RatLess(a, b) == a[1] * b[2] < b[1] * a[2]

RatDiv(a, b) == <<a[1] * b[2], a[2] * b[1]>>

RECURSIVE RatMax(_, _)
RatMax(ws, k) ==
    IF k = 1 THEN ws[1]
    ELSE LET m == RatMax(ws, k - 1) IN IF RatLess(m, ws[k]) THEN ws[k] ELSE m

\* (pdf[v - 1] * partition_max) ^ -beta
RawWeight(distribution, partition_max, beta, v) ==
    IF beta = 0 THEN <<1, 1>>
    ELSE <<distribution.pdf.den, distribution.pdf.num[v] * partition_max>>

RECURSIVE RatMin(_, _)
RatMin(ws, k) ==
    IF k = 1 THEN ws[1]
    ELSE LET m == RatMin(ws, k - 1) IN IF RatLess(ws[k], m) THEN ws[k] ELSE m

importance_weights_by_min(distribution, partition_max, beta, rank_list) ==
    LET w == [i \in 1..Len(rank_list) |->
                 RawWeight(distribution, partition_max, beta, rank_list[i])]
        w_min == RatMin(w, Len(w))
    IN  [i \in 1..Len(w) |-> RatDiv(w[i], w_min)]

\* w = np.power(alpha_pow * partition_max, -beta); w = w / max(w)
importance_weights(distribution, partition_max, beta, rank_list) ==
    LET w == [i \in 1..Len(rank_list) |->
                 RawWeight(distribution, partition_max, beta, rank_list[i])]
        w_max == RatMax(w, Len(w))
    IN  [i \in 1..Len(w) |-> RatDiv(w[i], w_max)]

\* the stratum starting one rank late
StratumLo_skip_one(distribution, n) == distribution.strata_ends[n] + 2

StratumLo(distribution, n) == distribution.strata_ends[n] + 1

StratumHi(distribution, n) == distribution.strata_ends[n + 1]

Degenerate(distribution, n) == StratumLo(distribution, n) >= StratumHi(distribution, n)

\* in_storage: the rank has an entry and its slot id is within record_size
InStorage(r) == r \in 1..Len(priority_queue) /\ priority_queue[r][2] <= record_size

\* the ranks the body of the for loop can leave in rank_list for stratum n
Candidates(distribution, n) ==
    IF Degenerate(distribution, n)
    THEN {StratumLo(distribution, n)}
    ELSE {r \in StratumLo(distribution, n)..StratumHi(distribution, n) : InStorage(r)}

RECURSIVE RankLists(_, _)
RankLists(distribution, n) ==
    IF n = 0 THEN {<<>>}
    ELSE {Append(rl, r) : rl \in RankLists(distribution, n - 1),
                          r \in Candidates(distribution, n)}

SlotsKnown(indices) ==
    \A i \in 1..Len(indices) :
        (IF indices[i] = 0 THEN 1 ELSE indices[i]) \in DOMAIN storage

retrieve(indices) ==
    [i \in 1..Len(indices) |-> storage[IF indices[i] = 0 THEN 1 ELSE indices[i]]]

DistIndex == Max2((record_size * batch_size) \div size, 1)

sample(bs, beta) ==
    LET dist_index == DistIndex
        partition_size == size \div batch_size
        partition_max == dist_index * partition_size
        SRet == [NoRet EXCEPT !.op = "sample", !.dist = dist_index]
    IN  /\ Running
        /\ UNCHANGED <<config, index, record_size, isFull, storage, priority_queue, adds, written>>
        /\ IF dist_index \notin DOMAIN distributions
           THEN ret' = [SRet EXCEPT !.status = "no_distribution"]
           ELSE LET distribution == distributions[dist_index]
                    strata == Min2(bs, batch_size)
                IN  IF \E n \in 1..strata : Candidates(distribution, n) = {}
                    THEN ret' = [SRet EXCEPT !.status = "hang"]
                    ELSE IF bs > batch_size
                    THEN ret' = [SRet EXCEPT !.status = "no_stratum"]
                    ELSE \E rank_list \in RankLists(distribution, bs) :
                         IF \E i \in 1..bs : rank_list[i] \notin 1..distribution.n
                         THEN ret' = [SRet EXCEPT !.status = "rank_outside_pdf",
                                                  !.ranks = rank_list]
                         ELSE IF ~RanksKnown(priority_queue, rank_list)
                         THEN ret' = [SRet EXCEPT !.status = "unknown_rank",
                                                  !.ranks = rank_list]
                         ELSE LET rank_e_id == priority_to_experience(priority_queue, rank_list)
                              IN  IF ~SlotsKnown(rank_e_id)
                                  THEN ret' = [SRet EXCEPT !.status = "unknown_slot",
                                                           !.ranks = rank_list,
                                                           !.ids = rank_e_id]
                                  ELSE ret' = [SRet EXCEPT
                                          !.ranks = rank_list,
                                          !.ids = rank_e_id,
                                          !.batch = retrieve(rank_e_id),
                                          !.w = importance_weights(distribution,
                                                    partition_max, beta, rank_list)]

\* ---------------------------------------------------------------- specification
\* update_priorities is called with one pair (any delta) or with two pairs
\* whose deltas are a small positive and a large negative one
UpdateArgs ==
    {<<<<i, d>>>> : i \in 0..size, d \in Deltas}
        \cup {<<<<i, 1>>, <<j, -2>>>> : i \in 0..size, j \in 0..size}

\* a direct call of retrieve
retrieve_call(indices) ==
    /\ Running
    /\ ret' = IF SlotsKnown(indices)
              THEN [NoRet EXCEPT !.op = "retrieve", !.ids = indices,
                                 !.batch = retrieve(indices)]
              ELSE [NoRet EXCEPT !.op = "retrieve", !.ids = indices,
                                 !.status = "unknown_slot"]
    /\ UNCHANGED <<config, index, record_size, isFull, storage, priority_queue,
                   adds, written>>

\* retrieve is called with one slot id or with two
RetrieveArgs ==
    {<<i>> : i \in 0..size} \cup {<<i, j>> : i \in 0..size, j \in 0..size}

Slots(a) == {a[i][1] : i \in 1..Len(a)}

Next ==
    \/ add(adds + 1) /\ UNCHANGED <<hist, learner>>
    \/ rebalance /\ UNCHANGED <<hist, learner>>
    \/ \E a \in UpdateArgs :
          /\ update_priorities([i \in 1..Len(a) |-> a[i][1]], [i \in 1..Len(a) |-> a[i][2]])
          /\ UNCHANGED <<hist, learner>>
    \/ \E bs \in 1..(batch_size + 1), beta \in BetaSet : sample(bs, beta) /\ UNCHANGED <<hist, learner>>

\* a buffer whose sampling configuration is the simplest one: add,
\* update_priorities, rebalance and retrieve do not read it
InitPlain == Init /\ alpha = 0 /\ batch_size = 1 /\ learning_starts = 0

\* add, rebalance and update_priorities, the pairs of the last update recorded
NextUpdate ==
    \/ add(adds + 1) /\ hist' = NoHist /\ UNCHANGED learner
    \/ rebalance /\ UNCHANGED <<hist, learner>>
    \/ \E a \in UpdateArgs :
          /\ update_priorities([i \in 1..Len(a) |-> a[i][1]], [i \in 1..Len(a) |-> a[i][2]])
          /\ hist' = [NoHist EXCEPT !.upd = a]
          /\ UNCHANGED learner

\* add and direct calls of retrieve
NextRetrieve ==
    \/ add(adds + 1) /\ UNCHANGED <<hist, learner>>
    \/ \E indices \in RetrieveArgs : retrieve_call(indices) /\ UNCHANGED <<hist, learner>>

\* sample, later adds and the update_priorities call that follows them, with
\* the sampled slot ids and the overwritten ones among them recorded
NextStale ==
    \/ /\ add(adds + 1)
       /\ hist' = [upd |-> <<>>, sampled |-> hist.sampled,
                   stale |-> hist.stale \cup ({fix_index.result} \cap hist.sampled)]
       /\ UNCHANGED learner
    \/ rebalance /\ hist' = [hist EXCEPT !.upd = <<>>] /\ UNCHANGED learner
    \/ \E a \in UpdateArgs :
          /\ update_priorities([i \in 1..Len(a) |-> a[i][1]], [i \in 1..Len(a) |-> a[i][2]])
          /\ hist' = [NoHist EXCEPT !.upd = a]
          /\ UNCHANGED learner
    \/ \E beta \in BetaSet :
          /\ sample(batch_size, beta)
          /\ hist' = [upd |-> <<>>, stale |-> {},
                      sampled |-> {ret'.ids[i] : i \in 1..Len(ret'.ids)}]
          /\ UNCHANGED learner

\* ---------------------------------------------------------------- training loops
\* TD3.learn and EUM.learn with buffer_type = RankPrioritizedReplayBuffer and no
\* replay wrapper.  The prioritized buffer of the learner is the buffer of this
\* module: buffer_size is size, prioritization_starts is learning_starts, and
\* batch_size is batch_size.  total_timesteps is MaxAdds.
Algos == {"TD3", "EUM"}

Rank == "RankPrioritizedReplayBuffer"

Uniform == "ReplayBuffer"

prioritization_starts == learning_starts

\* setup_model picks the uniform buffer when prioritization_starts > 0; learn
\* starts at initial_step = num_timesteps (0, or 1 for a model that is trained on)
StartLearners ==
    {[NoLearner EXCEPT !.algo = a, !.pc = "start", !.num_timesteps = n, !.step = n,
                       !.train_freq = f, !.gradient_steps = g, !.learning_starts = l,
                       !.replay_buffer = IF prioritization_starts > 0 THEN Uniform ELSE Rank] :
        a \in Algos, n \in 0..1, f \in 1..2, g \in 1..2, l \in 0..1}

InitLearn ==
    /\ Fresh(TRUE)
    /\ alpha = 1
    /\ batch_size = 1
    /\ learner \in StartLearners

buffer == <<index, record_size, isFull, storage, priority_queue, adds, written, ret>>

\* the test that guards _set_prioritized_buffer
SwitchDue(replay_buffer, num_timesteps) ==
    replay_buffer = Uniform /\ num_timesteps >= prioritization_starts

\* the switch test before the loop
learn_begin ==
    /\ Running
    /\ learner.pc = "start"
    /\ learner' = [learner EXCEPT
          !.pc = IF SwitchDue(learner.replay_buffer, learner.num_timesteps)
                 THEN "migrate" ELSE "step",
          !.i = 0]
    /\ UNCHANGED <<config, buffer, hist>>

\* ReplayBuffer.add: append until full, then overwrite in a circle
UniformAdd(st, next_idx, transition) ==
    IF Len(st) < size THEN Append(st, transition)
    ELSE [st EXCEPT ![next_idx + 1] = transition]

\* the latest size entries of the record of adds on the prioritized buffer
Slide(w, flag) == IF Len(w) >= size THEN Append(Tail(w), flag) ELSE Append(w, flag)

\* the head of one loop iteration up to replay_buffer.add; TD3 counts the
\* timestep here
learn_add ==
    LET nt == IF learner.algo = "TD3" THEN learner.num_timesteps + 1
              ELSE learner.num_timesteps
        transition == learner.step + 1
    IN  /\ Running
        /\ learner.pc = "step"
        /\ learner.step < MaxAdds
        /\ IF learner.replay_buffer = Rank
           THEN /\ add(transition)
                /\ learner' = [learner EXCEPT !.num_timesteps = nt, !.pc = "rebalance",
                                              !.window = Slide(learner.window, FALSE)]
           ELSE /\ learner' = [learner EXCEPT
                      !.num_timesteps = nt, !.pc = "rebalance",
                      !.uniform = UniformAdd(learner.uniform, learner.next_idx, transition),
                      !.next_idx = (learner.next_idx + 1) % size]
                /\ UNCHANGED <<config, buffer>>
        /\ UNCHANGED hist

\* the rebalance test after the add
learn_rebalance ==
    /\ Running
    /\ learner.pc = "rebalance"
    /\ IF learner.replay_buffer = Rank /\ learner.num_timesteps % size = 0
       THEN /\ rebalance
            /\ learner' = [learner EXCEPT
                  !.pc = "train", !.grad_step = 0,
                  !.window = [learner.window EXCEPT ![Len(learner.window)] = TRUE]]
       ELSE /\ learner' = [learner EXCEPT !.pc = "train", !.grad_step = 0]
            /\ UNCHANGED <<config, buffer>>
    /\ UNCHANGED hist

\* replay_buffer.can_sample(batch_size) of the buffer in use
LearnerCanSample ==
    IF learner.replay_buffer = Rank THEN can_sample(batch_size)
    ELSE Len(learner.uniform) >= batch_size

\* the tests around the call of _train_step: TD3 tests num_timesteps against
\* train_freq, EUM tests step
TrainDue ==
    /\ IF learner.algo = "TD3" THEN learner.num_timesteps % learner.train_freq = 0
       ELSE learner.step % learner.train_freq = 0
    /\ learner.grad_step < learner.gradient_steps
    /\ LearnerCanSample
    /\ learner.num_timesteps >= learner.learning_starts

\* _train_step: one sample, the gradient step, and what follows it.  TD3
\* returns the losses; EUM reads q_discrepancies, a name that is not bound, and
\* raises NameError
train_step ==
    LET asked == learner.num_timesteps >= prioritization_starts
    IN  /\ Running
        /\ learner.pc = "train"
        /\ TrainDue
        /\ IF learner.replay_buffer = Rank
           THEN /\ \E beta \in BetaSet : sample(batch_size, beta)
                /\ learner' = [learner EXCEPT
                      !.trained = TRUE, !.asked = asked,
                      !.sampled = ret'.ids, !.updated = <<>>,
                      !.grad_step = learner.grad_step + 1,
                      !.pc = IF ret'.status # "ok" \/ learner.algo = "EUM"
                             THEN "error" ELSE "train"]
           ELSE /\ learner' = [learner EXCEPT
                      !.trained = TRUE, !.asked = asked,
                      !.sampled = <<>>, !.updated = <<>>,
                      !.grad_step = learner.grad_step + 1,
                      !.pc = IF asked /\ learner.algo = "EUM" THEN "error" ELSE "train"]
                /\ UNCHANGED <<config, buffer>>
        /\ UNCHANGED hist

\* the tail of one loop iteration: no (further) gradient step, num_timesteps
\* is counted, and the switch test is made again
learn_next ==
    LET nt == learner.num_timesteps + 1
    IN  /\ Running
        /\ learner.pc = "train"
        /\ ~TrainDue
        /\ learner' = [learner EXCEPT
              !.num_timesteps = nt, !.step = learner.step + 1,
              !.pc = IF SwitchDue(learner.replay_buffer, nt) THEN "migrate" ELSE "step",
              !.i = 0]
        /\ UNCHANGED <<config, buffer, hist>>

\* _set_prioritized_buffer, loop body, first call: r_buf.add(*transition) for
\* the i-th element of enumerate(_storage), i counted from 0
set_prioritized_buffer_add ==
    /\ Running
    /\ learner.pc = "migrate"
    /\ learner.i < Len(learner.uniform)
    /\ add(learner.uniform[learner.i + 1])
    /\ learner' = [learner EXCEPT !.pc = "migrate_update"]
    /\ UNCHANGED hist

\* _set_prioritized_buffer, loop body, second call:
\* r_buf.update_priorities([i], get_q_discrepancy(transition[0])[0])
set_prioritized_buffer_update ==
    /\ learner.pc = "migrate_update"
    /\ \E d \in Deltas :
          /\ update_priorities(<<learner.i>>, <<d>>)
          /\ learner' = [learner EXCEPT
                !.copied = Append(learner.copied, <<learner.uniform[learner.i + 1], d>>),
                !.i = learner.i + 1,
                !.pc = IF ret'.status = "ok" THEN "migrate" ELSE "error"]
    /\ UNCHANGED hist

\* _set_prioritized_buffer after the loop: rebalance and make r_buf the buffer
set_prioritized_buffer_finish ==
    /\ learner.pc = "migrate"
    /\ learner.i = Len(learner.uniform)
    /\ rebalance
    /\ learner' = [learner EXCEPT !.replay_buffer = Rank, !.pc = "step"]
    /\ UNCHANGED hist

NextLearn ==
    \/ learn_begin
    \/ learn_add
    \/ learn_rebalance
    \/ train_step
    \/ learn_next
    \/ set_prioritized_buffer_add
    \/ set_prioritized_buffer_update
    \/ set_prioritized_buffer_finish

Spec == Init /\ [][Next]_vars

SpecReject == InitReject /\ [][Next]_vars

SpecUpdate == InitPlain /\ [][NextUpdate]_vars

SpecRetrieve == InitPlain /\ [][NextRetrieve]_vars

SpecStale == InitPlain /\ [][NextStale]_vars

SpecLearn == InitLearn /\ [][NextLearn]_vars

\* ---------------------------------------------------------------- properties
Held == Cardinality(DOMAIN storage)

SampleReturned == ret.op = "sample" /\ ret.status = "ok"

AddStored == ret.op = "add" /\ ret.status = "ok"

AddRejected == ret.op = "add" /\ ret.status = "full"

\* C1: the live count record_size never exceeds the capacity size.
C1_CapacityBound == record_size <= size

\* C2: for every k, can_sample(k) is true exactly when the store holds at
\* least k transitions.
C2_CanSampleIffHeld == \A k \in 0..(MaxSize + 1) : can_sample(k) <=> (Held >= k)

\* C3: right after a successful add (fresh slot or overwrite) the slot just
\* written has the priority max_priority() had just before the add.
C3_NewItemPriority ==
    AddStored =>
        /\ HasEntry(priority_queue, ret.slot)
        /\ PriorityOf(priority_queue, ret.slot) = ret.maxp

\* an overwriting add made while the largest priority is not the seed value
C3_Witness == AddStored /\ adds > size /\ ret.maxp = 2 /\ Len(priority_queue) = size

\* C4: right after rebalance the queue is in descending priority order:
\* for ranks i < j, priority(rank i) >= priority(rank j).
C4_RebalanceSorted ==
    ret.op = "rebalance" =>
        \A i, j \in 1..Len(priority_queue) :
            i < j => priority_queue[i][1] >= priority_queue[j][1]

\* a rebalance of three or more entries of differing priorities
C4_Witness ==
    /\ ret.op = "rebalance"
    /\ Len(priority_queue) >= 3
    /\ priority_queue[1][1] > priority_queue[Len(priority_queue)][1]

\* C5: in every batch sample returns, the largest importance weight is 1 and
\* every weight lies in (0, 1].
C5_WeightsNormalized ==
    SampleReturned =>
        /\ \E i \in 1..Len(ret.w) : ret.w[i][1] = ret.w[i][2]
        /\ \A i \in 1..Len(ret.w) :
              ret.w[i][2] > 0 /\ ret.w[i][1] > 0 /\ ret.w[i][1] <= ret.w[i][2]

\* a returned batch in which some weight is strictly below 1
C5_Witness ==
    SampleReturned /\ \E i \in 1..Len(ret.w) : ret.w[i][1] < ret.w[i][2]

\* C6: the k-th rank of a returned batch lies in the k-th stratum,
\* strata_ends[k]+1 <= r_k <= strata_ends[k+1], degenerate strata included.
C6_OneRankPerStratum ==
    SampleReturned =>
        \A k \in 1..Len(ret.ranks) :
            /\ StratumLo(distributions[ret.dist], k) <= ret.ranks[k]
            /\ ret.ranks[k] <= StratumHi(distributions[ret.dist], k)

C8_RejectOnlyWhenFull == (~replace_flag /\ AddRejected) => Held = size

\* C9: a rejected add leaves the live count, the stored transitions and the
\* priority entries as they were.
C9_RejectedAddNoChange ==
    [][(ret'.op = "add" /\ ret'.status = "full") =>
          /\ record_size' = record_size
          /\ storage' = storage
          /\ priority_queue' = priority_queue]_vars

\* C10: while record_size < learning_starts, sample fails with the
\* distribution-not-ready error.
C10_NotReadyBelowLearningStarts ==
    (ret.op = "sample" /\ record_size < learning_starts) => ret.status = "no_distribution"

\* C11: once the buffer is full, sample finds a distribution for the current
\* fill level, and keeps finding one under further adds.
C11_DistributionOnceFull ==
    (ret.op = "sample" /\ Held = size) => ret.status # "no_distribution"

\* C12: with overwrite enabled the k-th add uses slot ((k - 1) mod size) + 1,
\* which lies in 1..size.
C12_CircularSlots ==
    (replace_flag /\ ret.op = "add") =>
        /\ ret.status = "ok"
        /\ ret.slot = ((adds - 1) % size) + 1
        /\ ret.slot \in 1..size

\* an add that wrapped round to slot 1 of a buffer of two or more slots
C12_Witness == AddStored /\ size >= 2 /\ adds = size + 1 /\ ret.slot = 1

SlotsOf(pq) == {pq[p][2] : p \in 1..Len(pq)}

EntrySlots == SlotsOf(priority_queue)

C14_SampleTerminates == ret.status # "hang"

Distinct(ids) == \A i, j \in 1..Len(ids) : i # j => ids[i] # ids[j]

\* C19: sample(batch_size) on a filled and just rebalanced buffer returns
\* batch_size pairwise distinct slot ids, each live and in 1..size.
C19_DistinctLiveIds ==
    [][(/\ ret.op = "rebalance"
        /\ Held = size
        /\ ret'.op = "sample"
        /\ ret'.status = "ok"
        /\ Len(ret'.ranks) = batch_size)
          => /\ Len(ret'.ids) = batch_size
             /\ \A i \in 1..Len(ret'.ids) :
                   ret'.ids[i] \in 1..size /\ ret'.ids[i] \in DOMAIN storage
             /\ Distinct(ret'.ids)]_vars

Mag(x) == IF x < 0 THEN 0 - x ELSE x

\* pair i is the last pair of a that names its slot
LastOcc(a, i) == \A j \in (i + 1)..Len(a) : a[j][1] # a[i][1]

UpdateReturned == ret.op = "update_priorities" /\ ret.status = "ok"

\* C15: update_priorities sets each listed live slot to |delta|, and after a
\* following rebalance the slot given the larger |delta| has the lower rank,
\* whatever the signs.
C15_AbsDeltaOrdersRanks ==
    LET a == hist.upd
    IN  /\ UpdateReturned =>
              \A i \in 1..Len(a) :
                  LastOcc(a, i) => PriorityOf(priority_queue, a[i][1]) = Mag(a[i][2])
        /\ (/\ ret.op = "rebalance"
            /\ a # <<>>
            /\ \A i \in 1..Len(a) : HasEntry(priority_queue, a[i][1]))
              => \A i, j \in 1..Len(a) :
                    (LastOcc(a, i) /\ LastOcc(a, j) /\ Mag(a[i][2]) > Mag(a[j][2]))
                       => PositionOf(priority_queue, a[i][1])
                              <= PositionOf(priority_queue, a[j][1])

\* a rebalance after update_priorities(<<s, t>>, <<1, -2>>) on two live slots
C15_Witness ==
    /\ ret.op = "rebalance"
    /\ Len(hist.upd) = 2
    /\ hist.upd[1][1] # hist.upd[2][1]
    /\ \A i \in 1..2 : HasEntry(priority_queue, hist.upd[i][1])
    /\ PositionOf(priority_queue, hist.upd[2][1]) < PositionOf(priority_queue, hist.upd[1][1])
    /\ Len(priority_queue) >= 3

C17_StaleUpdateRejected ==
    [][(ret'.op = "update_priorities" /\ Slots(hist'.upd) \cap hist.stale # {}) =>
          /\ ret'.status = "unknown_slot"
          /\ \A e \in Slots(hist'.upd) \cap hist.stale :
                PriorityOf(priority_queue', e) = PriorityOf(priority_queue, e)]_vars

\* C18: retrieve returns the transitions of the requested slots in the
\* requested order if all of them were written, and otherwise (slot 0
\* included) fails with the unknown-slot error and returns nothing.
C18_RetrieveAllOrNothing ==
    ret.op = "retrieve" =>
        IF \A i \in 1..Len(ret.ids) : ret.ids[i] \in DOMAIN written
        THEN /\ ret.status = "ok"
             /\ ret.batch = [i \in 1..Len(ret.ids) |-> written[ret.ids[i]]]
        ELSE /\ ret.status = "unknown_slot"
             /\ ret.batch = <<>>

\* C20: update_priorities on live slots leaves the stored transitions, the
\* insert position, the live count, the distribution table and the priorities
\* of the slots it does not list as they were.
C20_UpdateFrame ==
    [][(ret'.op = "update_priorities" /\ ret'.status = "ok") =>
          /\ storage' = storage
          /\ index' = index
          /\ record_size' = record_size
          /\ distributions' = distributions
          /\ SlotsOf(priority_queue') = SlotsOf(priority_queue)
          /\ \A e \in SlotsOf(priority_queue) \ Slots(hist'.upd) :
                PriorityOf(priority_queue', e) = PriorityOf(priority_queue, e)]_vars

\* a returned update of one slot of a full three-slot buffer whose new
\* priority differs from that of an unlisted slot
C20_Witness ==
    /\ UpdateReturned
    /\ Len(priority_queue) >= 3
    /\ Len(hist.upd) = 1
    /\ \E e \in EntrySlots \ Slots(hist.upd) :
          PriorityOf(priority_queue, e) # PriorityOf(priority_queue, hist.upd[1][1])

\* the mass of ranks 1..r of a distribution, as a numerator over pdf.den
CumMass(d, r) == SeqSum(d.pdf.num, r)

\* the smallest rank of d whose cumulative probability reaches k / batch_size
QuantileRank(d, k) ==
    CHOOSE r \in 1..d.n :
        /\ batch_size * CumMass(d, r) >= k * d.pdf.den
        /\ \A q \in 1..(r - 1) : batch_size * CumMass(d, q) < k * d.pdf.den

\* C21: in every distribution built, strata_ends[1] = 0,
\* strata_ends[batch_size+1] = n, and strata_ends[k] for k in 2..batch_size is
\* the smallest rank whose cumulative probability reaches k / batch_size.
C21_StrataEndsAtQuantiles ==
    \A p \in DOMAIN distributions :
        LET d == distributions[p]
        IN  /\ d.strata_ends[1] = 0
            /\ d.strata_ends[batch_size + 1] = d.n
            /\ \A k \in 2..batch_size : d.strata_ends[k] = QuantileRank(d, k)

\* C22: with alpha = 0, in every distribution whose size n is a multiple of
\* batch_size all strata hold the same number of ranks, n / batch_size.
C22_UniformStrataEqual ==
    alpha = 0 =>
        \A p \in DOMAIN distributions :
            LET d == distributions[p]
            IN  d.n % batch_size = 0 =>
                    \A k \in 1..batch_size :
                        d.strata_ends[k + 1] - d.strata_ends[k] = d.n \div batch_size

\* C23: in every distribution built the batch_size ranges
\* strata_ends[k]+1 .. strata_ends[k+1] are non-empty, follow one another and
\* cover exactly 1..n.
C23_StrataPartition ==
    \A p \in DOMAIN distributions :
        LET d == distributions[p]
        IN  /\ d.strata_ends[1] = 0
            /\ d.strata_ends[batch_size + 1] = d.n
            /\ \A k \in 1..batch_size : StratumLo(d, k) <= StratumHi(d, k)

\* C30: when sample is called with the batch_size of the constructor, every
\* rank it puts in the rank list, the rank taken directly for a degenerate
\* stratum included, lies in 1..n of the distribution in use.
C30_RanksWithinPdf ==
    (ret.op = "sample" /\ ret.dist \in DOMAIN distributions) =>
        /\ ret.status # "rank_outside_pdf"
        /\ \A i \in 1..Len(ret.ranks) : ret.ranks[i] \in 1..distributions[ret.dist].n
        /\ \A k \in 1..batch_size :
              Candidates(distributions[ret.dist], k) \subseteq 1..distributions[ret.dist].n

\* a full-size rank list holding a rank that was taken directly for a
\* degenerate stratum
C30_Witness ==
    /\ ret.op = "sample"
    /\ Len(ret.ranks) = batch_size
    /\ batch_size >= 2
    /\ \E k \in 1..batch_size :
          /\ Degenerate(distributions[ret.dist], k)
          /\ ret.ranks[k] = StratumLo(distributions[ret.dist], k)

\* the transitions the store holds
StoredTransitions == {storage[s] : s \in DOMAIN storage}

\* C28: with overwrite enabled, after k adds the store holds exactly the
\* most recent min(k, size) transitions, so an add on a full buffer evicts the
\* oldest one and no other.
C28_FifoEviction ==
    replace_flag =>
        /\ StoredTransitions = (adds - Min2(adds, size) + 1)..adds
        /\ Held = Min2(adds, size)

\* an add that overwrote the oldest transition of a full buffer of two or
\* more slots
C28_Witness ==
    /\ AddStored
    /\ size >= 2
    /\ adds > size
    /\ storage[ret.slot] = adds

\* C29: rebalance leaves the priority of every live slot, the stored
\* transitions, the insert position and the live count as they were.
C29_RebalanceFrame ==
    [][ret'.op = "rebalance" =>
          /\ storage' = storage
          /\ index' = index
          /\ record_size' = record_size
          /\ SlotsOf(priority_queue') = SlotsOf(priority_queue)
          /\ Len(priority_queue') = Len(priority_queue)
          /\ \A e \in SlotsOf(priority_queue) :
                PriorityOf(priority_queue', e) = PriorityOf(priority_queue, e)]_vars

\* a rebalanced queue of three entries whose second slot has the top
\* priority: the order is not the insertion order
C29_Witness ==
    /\ ret.op = "rebalance"
    /\ Len(priority_queue) >= 3
    /\ priority_queue[1][2] = 2
    /\ priority_queue[1][1] > priority_queue[2][1]

\* C24: in TD3.learn and EUM.learn, while the prioritized buffer is in use,
\* every size consecutive adds contain exactly one add that is followed by
\* rebalance.
C24_RebalanceOncePerCapacity ==
    (learner.pc \in {"train", "step", "migrate"} /\ Len(learner.window) = size) =>
        Cardinality({j \in 1..size : learner.window[j]}) = 1

\* C25: a gradient step taken on the prioritized buffer has called
\* update_priorities with exactly the slot ids its sample returned when it
\* ends.
C25_SampleThenUpdate ==
    (/\ learner.trained
     /\ learner.asked
     /\ learner.replay_buffer = Rank
     /\ ret.op = "sample"
     /\ ret.status = "ok")
        => learner.updated = learner.sampled

\* C26: whenever _train_step asks for a prioritized sample, the buffer in use
\* is the prioritized buffer.
C26_SwitchedBeforePrioritizedSample ==
    (learner.trained /\ learner.asked) => learner.replay_buffer = Rank

\* the slots of the new buffer that hold a copied transition
CopiedSlots ==
    {e \in DOMAIN storage : \E j \in 1..Len(learner.copied) : storage[e] = learner.copied[j][1]}

\* C27: _set_prioritized_buffer gives every copied transition's slot the
\* priority computed from that transition, and the slots with a priority
\* entry are exactly the slots holding a copied transition.
C27_MigrationPriorities ==
    (learner.pc \in {"migrate", "error"} /\ learner.copied # <<>>) =>
        /\ \A j \in 1..Len(learner.copied) :
              \E e \in DOMAIN storage :
                  /\ storage[e] = learner.copied[j][1]
                  /\ HasEntry(priority_queue, e)
                  /\ PriorityOf(priority_queue, e) = Mag(learner.copied[j][2])
        /\ EntrySlots = CopiedSlots

====
